---------------------------- MODULE Spec2Model ----------------------------
(***************************************************************************)
(* Entitlement and access-authorization backend of the OTA-update          *)
(* distribution service:                                                   *)
(*   - the download-link handler  (_backend/private/download_link.ts)      *)
(*   - the rights resolvers, quota evaluator and segment classifier        *)
(*     (_backend/utils/supabase.ts)                                        *)
(* The external store, the identity provider and the URL signer are the    *)
(* environment: every answer they can give is drawn with \E.               *)
(***************************************************************************)
EXTENDS Integers, Sequences, FiniteSets, TLC

(***************************************************************************)
(* Bounds of the model.                                                    *)
(***************************************************************************)
MaxHeaderChunks == 2
MaxBundleId == 2
MaxVersions == 1
MaxOrgUsers == 1
MaxMetric == 1
MaxPercent == 2
MaxTrialDays == 8
MaxCalls == 2

(***************************************************************************)
(* JavaScript values.                                                      *)
(***************************************************************************)
Undefined == "<undefined>"
Null == "<null>"
None == <<>>
Some(v) == <<v>>

\* !v for a string-or-undefined value
Falsy(v) == v \in {Undefined, Null, ""}

\* values whose JavaScript type matters (rpc data, fields of an object)
JsNull == [t |-> "null"]
JsBool(b) == [t |-> "boolean", v |-> b]
JsNum(n) == [t |-> "number", v |-> n]
JsStr(s) == [t |-> "string", v |-> s]
TypeOf(x) == x.t
Truthy(x) ==
    CASE x.t = "boolean" -> x.v
      [] x.t = "number" -> x.v # 0
      [] x.t = "string" -> x.v # ""
      [] OTHER -> FALSE

Range(s) == {s[i] : i \in 1..Len(s)}

(***************************************************************************)
(* The universe of identifiers.                                            *)
(***************************************************************************)
Users == {"u1", "u2"}
Apps == {"a1", "a2"}
Orgs == {"o1", "o2"}
\* user_min_right, ordered read < upload < write < admin
Rights == <<"read", "upload", "write", "admin">>
RightLevel(right) == CHOOSE i \in 1..Len(Rights) : Rights[i] = right

(***************************************************************************)
(* The store (tables read by the code below).                              *)
(***************************************************************************)
\* apps.owner_org
AppOwner == [a \in Apps |-> IF a = "a1" THEN "o1" ELSE "o2"]

OrgUsersRows == [user_id : Users, org_id : Orgs, user_right : Range(Rights)]
OrgUsersTables == {t \in SUBSET OrgUsersRows : Cardinality(t) <= MaxOrgUsers}

VersionRows == [id : 1..MaxBundleId, app_id : Apps, owner_org : Orgs \cup {Null}]
AppVersionsTables == {t \in SUBSET VersionRows : Cardinality(t) <= MaxVersions}

\* orgs, as id -> created_by; NoRow when the organization has no row
NoRow == "<no row>"
OrgsTables == [Orgs -> Users \cup {Null, NoRow}]

\* rpc check_min_rights(min_right, user_id, org_id, null, null)
check_min_rights(ou, min_right, user_id, org_id) ==
    \E r \in ou : /\ r.user_id = user_id
                  /\ r.org_id = org_id
                  /\ RightLevel(r.user_right) >= RightLevel(min_right)

\* rpc has_app_right_userid(appid, right, userid)
has_app_right_userid(ou, appid, right, userid) ==
    /\ appid \in Apps
    /\ check_min_rights(ou, right, userid, AppOwner[appid])

\* the rows of org_users that a rights lookup for (user_id, org_id) reads
OrgUsersRead(ou, user_id, org_id) == {r \in ou : r.user_id = user_id /\ r.org_id = org_id}
\* the rows of app_versions that the filter (app_id, id) reads
VersionsRead(t, app_id, id) == {r \in t : r.app_id = app_id /\ r.id = id}
\* the rows of orgs that the embedding of owner_org reads
OrgsRead(o, rows) ==
    [x \in Orgs |-> IF \E r \in rows : r.owner_org = x THEN o[x] ELSE NoRow]

\* the answer of a store call: {data, error}; data is null whenever error is set
StoreError == "store error"
RpcAnswer(value, fail) ==
    IF fail THEN [data |-> JsNull, error |-> StoreError]
            ELSE [data |-> value, error |-> Null]

(***************************************************************************)
(* State.                                                                  *)
(***************************************************************************)
VARIABLES
    \* the rows of the store that the last call read
    org_users, app_versions, orgs,
    \* download-link handler: position, request, locals, response
    pc, authorization, body, auth, userId, allowed, bundle, ownerOrg, response,
    \* external calls made by the running operation, in order
    calls,
    \* last call of a utility function: name, arguments, outcome
    fn, args, result,
    \* tables written by the recorders and by createApiKey
    devices, bandwidth_usage, version_usage, stats, apikeys,
    \* write requests sent to the store and not yet applied
    inflight,
    \* the requests the store has answered, in the order it answered them
    applied,
    \* number of calls made so far; also the time of the last call
    issued,
    \* the createApiKey calls in progress: call id -> position and locals
    procs

storeVars == <<org_users, app_versions, orgs>>
postVars == <<pc, authorization, body, auth, userId, allowed, bundle, ownerOrg,
              response>>
utilVars == <<fn, args, result>>
tableVars == <<devices, bandwidth_usage, version_usage, stats, apikeys>>
writeVars == <<devices, bandwidth_usage, version_usage, stats, apikeys, inflight,
               applied, issued, procs>>
vars == <<org_users, app_versions, orgs, pc, authorization, body, auth, userId,
          allowed, bundle, ownerOrg, response, calls, fn, args, result,
          devices, bandwidth_usage, version_usage, stats, apikeys, inflight,
          applied, issued, procs>>

Call(name, arg) == [fn |-> name, arg |-> arg]
CallNames == {calls[i].fn : i \in 1..Len(calls)}

(***************************************************************************)
(* Rights resolvers (supabase.ts).                                         *)
(***************************************************************************)
\* hasAppRight that treats a failed lookup as a grant
hasAppRight_failOpen(ou, appId, userid, right, fail) ==
    IF Falsy(appId)
      THEN [ret |-> JsBool(FALSE), rpc |-> <<>>]
      ELSE LET ans == RpcAnswer(JsBool(has_app_right_userid(ou, appId, right, userid)), fail)
           IN  [ret |-> IF ans.error # Null THEN JsBool(TRUE) ELSE ans.data,
                rpc |-> <<Call("has_app_right_userid", userid)>>]

\* hasAppRight: ret is the returned value, rpc the store calls it made
hasAppRight(ou, appId, userid, right, fail) ==
    IF Falsy(appId)
      THEN [ret |-> JsBool(FALSE), rpc |-> <<>>]
      ELSE LET ans == RpcAnswer(JsBool(has_app_right_userid(ou, appId, right, userid)), fail)
           IN  [ret |-> IF ans.error # Null THEN JsBool(FALSE) ELSE ans.data,
                rpc |-> <<Call("has_app_right_userid", userid)>>]

\* hasOrgRight that hands the store's data back without looking at the error
hasOrgRight_uncheckedError(ou, orgId, userId_, right, fail) ==
    LET userRight == RpcAnswer(JsBool(check_min_rights(ou, right, userId_, orgId)), fail)
    IN  [ret |-> userRight.data,
         rpc |-> <<Call("check_min_rights", userId_)>>]

hasOrgRight(ou, orgId, userId_, right, fail) ==
    LET userRight == RpcAnswer(JsBool(check_min_rights(ou, right, userId_, orgId)), fail)
    IN  [ret |-> IF userRight.error # Null \/ ~Truthy(userRight.data)
                   THEN JsBool(FALSE) ELSE userRight.data,
         rpc |-> <<Call("check_min_rights", userId_)>>]

(***************************************************************************)
(* Download-link handler (download_link.ts).                               *)
(***************************************************************************)
\* An Authorization header value is a string, kept as a sequence of chunks
\* so that split('Bearer ') can be computed.
Bearer == "Bearer "
HeaderChunks == {Bearer, "t1", "t2"}
HeaderStrings == UNION {[1..n -> HeaderChunks] : n \in 0..MaxHeaderChunks}
\* c.req.header('authorization'): undefined (None) or a string
Headers == {None} \cup {Some(h) : h \in HeaderStrings}

\* String.prototype.split('Bearer ')
RECURSIVE Split(_)
Split(h) ==
    IF h = <<>> THEN <<"">>
    ELSE LET rest == Split(Tail(h))
         IN  IF Head(h) = Bearer THEN <<"">> \o rest
             ELSE <<Head(h) \o Head(rest)>> \o Tail(rest)

\* authorization?.split('Bearer ')[1]
BearerToken(h) == IF Len(Split(h)) >= 2 THEN Split(h)[2] ELSE Undefined

\* identity provider: the sessions it knows, token -> user id
Sessions == [tok \in {"t1", "t2"} |-> IF tok = "t1" THEN "u1" ELSE "u2"]

\* auth.getUser(jwt): {data: {user}, error}
getUser(jwt, fail) ==
    IF jwt \in DOMAIN Sessions /\ ~fail
      THEN [user |-> Sessions[jwt], error |-> Null]
      ELSE [user |-> Null, error |-> "invalid JWT"]

\* request bodies: c.req.json() throws (None) or yields {app_id, id}
Bodies == {None} \cup
          {Some([app_id |-> a, id |-> i]) : a \in Apps \cup {Undefined}, i \in 1..MaxBundleId}

\* the bundle query embedding owner_org ( id ) instead of owner_org ( created_by )
SelectBundle_embedsOrgId(t, o, app_id, id, fail) ==
    LET rows == {r \in t : r.app_id = app_id /\ r.id = id}
    IN  IF fail \/ Cardinality(rows) # 1
          THEN [data |-> None, error |-> StoreError]
          ELSE LET r == CHOOSE x \in rows : TRUE
               IN  [data |-> Some([id |-> r.id, app_id |-> r.app_id,
                                   owner_org |->
                                     IF r.owner_org = Null \/ o[r.owner_org] = NoRow
                                       THEN None
                                       ELSE Some([created_by |-> r.owner_org])]),
                    error |-> Null]

\* .from('app_versions').select('*, owner_org ( created_by )')
\*   .eq('app_id', app_id).eq('id', id).single()
SelectBundle(t, o, app_id, id, fail) ==
    LET rows == {r \in t : r.app_id = app_id /\ r.id = id}
    IN  IF fail \/ Cardinality(rows) # 1
          THEN [data |-> None, error |-> StoreError]
          ELSE LET r == CHOOSE x \in rows : TRUE
               IN  [data |-> Some([id |-> r.id, app_id |-> r.app_id,
                                   owner_org |->
                                     IF r.owner_org = Null \/ o[r.owner_org] = NoRow
                                       THEN None
                                       ELSE Some([created_by |-> o[r.owner_org]])]),
                    error |-> Null]

\* getBundleUrl(c, ownerOrg, bundle): {url}, null, or an exception
SignerOutcomes == {"url", "null", "throws"}
SignedUrl(scope, b) == "https://storage/" \o scope \o "/" \o b.app_id

Json(code, status, app_id, url) ==
    Some([code |-> code, status |-> status, app_id |-> app_id, url |-> url])
CannotFindAuthorization == Json(400, "Cannot find authorization", Undefined, Undefined)
NotAuthorize == Json(400, "not authorize", Undefined, Undefined)
\* the rejection without the echoed app id
CantAccess_noEcho(app_id) == Json(400, "You can't access this app", Undefined, Undefined)
CantAccess(app_id) == Json(400, "You can't access this app", app_id, Undefined)
ErrorUnknow == Json(500, "Error unknow", Undefined, Undefined)
CannotGetLink == Json(500, "Cannot get download link", Undefined, Undefined)
Ok(url) == Json(200, Undefined, Undefined, url)

Init ==
    /\ org_users = {}
    /\ app_versions = {}
    /\ orgs = [o \in Orgs |-> NoRow]
    /\ pc = "idle"
    /\ authorization = None
    /\ body = None
    /\ auth = None
    /\ userId = Undefined
    /\ allowed = None
    /\ bundle = None
    /\ ownerOrg = Undefined
    /\ response = None
    /\ calls = <<>>
    /\ fn = "none"
    /\ args = <<>>
    /\ result = <<>>
    /\ devices = {}
    /\ bandwidth_usage = {}
    /\ version_usage = {}
    /\ stats = {}
    /\ apikeys = {}
    /\ inflight = {}
    /\ applied = <<>>
    /\ issued = 0
    /\ procs = <<>>

\* lines 19-28: parse the body, read the header, ask the identity provider
post_begin ==
    /\ pc = "idle"
    /\ \E h \in Headers, b \in Bodies :
         /\ authorization' = h
         /\ body' = b
         /\ IF b = None
              THEN /\ response' = CannotGetLink
                   /\ pc' = "responded"
                   /\ calls' = <<>>
              ELSE IF h = None \/ h[1] = <<>>
                THEN /\ response' = CannotFindAuthorization
                     /\ pc' = "responded"
                     /\ calls' = <<>>
                ELSE /\ response' = None
                     /\ pc' = "getUser"
                     /\ calls' = <<Call("getUser", BearerToken(h[1]))>>
    /\ UNCHANGED <<storeVars, auth, userId, allowed, bundle, ownerOrg, utilVars, writeVars>>

\* lines 26-32: the identity provider answers
post_getUser ==
    /\ pc = "getUser"
    /\ \E fail \in BOOLEAN :
         LET a == getUser(BearerToken(authorization[1]), fail)
         IN  /\ auth' = Some(a)
             /\ IF a.error # Null \/ Falsy(a.user)
                  THEN /\ response' = NotAuthorize
                       /\ pc' = "responded"
                       /\ userId' = userId
                  ELSE /\ userId' = a.user
                       /\ pc' = "hasAppRight"
                       /\ response' = response
    /\ UNCHANGED <<storeVars, authorization, body, allowed, bundle, ownerOrg, calls,
                   utilVars, writeVars>>

\* lines 34-42: hasAppRight(c, body.app_id, userId, 'read'), then the bundle query is sent
post_hasAppRight ==
    /\ pc = "hasAppRight"
    /\ \E ou \in OrgUsersTables, fail \in BOOLEAN :
         LET r == hasAppRight(ou, body[1].app_id, userId, "read", fail)
         IN  /\ org_users' = IF r.rpc = <<>> THEN org_users
                              ELSE OrgUsersRead(ou, userId, AppOwner[body[1].app_id])
             /\ allowed' = Some(r.ret)
             /\ IF ~Truthy(r.ret)
                  THEN /\ response' = CantAccess(body[1].app_id)
                       /\ pc' = "responded"
                       /\ calls' = calls \o <<Call("hasAppRight", userId)>> \o r.rpc
                  ELSE /\ response' = response
                       /\ pc' = "app_versions"
                       /\ calls' = calls \o <<Call("hasAppRight", userId)>> \o r.rpc
                                         \o <<Call("app_versions", body[1].app_id)>>
    /\ UNCHANGED <<app_versions, orgs, authorization, body, auth, userId, bundle,
                   ownerOrg, utilVars, writeVars>>

\* lines 37-56: the bundle query answers, the owner is read, the signer is called
post_app_versions ==
    /\ pc = "app_versions"
    /\ \E t \in AppVersionsTables, fail \in BOOLEAN :
       \* the rows of orgs that the query does not read are left out
       \E o \in {x \in OrgsTables : x = OrgsRead(x, VersionsRead(t, body[1].app_id, body[1].id))} :
         LET q == SelectBundle(t, o, body[1].app_id, body[1].id, fail)
             throws == q.data = None \/ q.data[1].owner_org = None
         IN  /\ app_versions' = VersionsRead(t, body[1].app_id, body[1].id)
             /\ orgs' = OrgsRead(o, app_versions')
             /\ bundle' = q.data
             /\ IF throws
                  THEN /\ ownerOrg' = ownerOrg
                       /\ response' = CannotGetLink
                       /\ pc' = "responded"
                       /\ calls' = calls
                  ELSE /\ ownerOrg' = q.data[1].owner_org[1].created_by
                       /\ IF q.error # Null \/ Falsy(ownerOrg')
                            THEN /\ response' = ErrorUnknow
                                 /\ pc' = "responded"
                                 /\ calls' = calls
                            ELSE /\ response' = response
                                 /\ pc' = "getBundleUrl"
                                 /\ calls' = calls \o <<Call("getBundleUrl", ownerOrg')>>
    /\ UNCHANGED <<org_users, authorization, body, auth, userId, allowed, utilVars, writeVars>>

\* lines 56-59: the signer answers
post_getBundleUrl ==
    /\ pc = "getBundleUrl"
    /\ \E out \in SignerOutcomes :
         response' = CASE out = "url" -> Ok(SignedUrl(ownerOrg, bundle[1]))
                       [] out = "null" -> ErrorUnknow
                       [] out = "throws" -> CannotGetLink
    /\ pc' = "responded"
    /\ UNCHANGED <<storeVars, authorization, body, auth, userId, allowed, bundle,
                   ownerOrg, calls, utilVars, writeVars>>

\* the response is sent; the handler is ready for the next request
post_end ==
    /\ pc = "responded"
    /\ pc' = "idle"
    /\ authorization' = None
    /\ body' = None
    /\ auth' = None
    /\ userId' = Undefined
    /\ allowed' = None
    /\ bundle' = None
    /\ ownerOrg' = Undefined
    /\ response' = None
    /\ calls' = <<>>
    /\ org_users' = {}
    /\ app_versions' = {}
    /\ orgs' = [o \in Orgs |-> NoRow]
    /\ UNCHANGED <<utilVars, writeVars>>

NextDownload ==
    \/ post_begin
    \/ post_getUser
    \/ post_hasAppRight
    \/ post_app_versions
    \/ post_getBundleUrl
    \/ post_end

SpecDownload == Init /\ [][NextDownload]_vars

(***************************************************************************)
(* Properties of the download-link handler.                                *)
(***************************************************************************)
CallSeq == [i \in 1..Len(calls) |-> calls[i].fn]
Stages == <<"getUser", "hasAppRight", "has_app_right_userid", "app_versions",
            "getBundleUrl">>
IsPrefix(s, t) == Len(s) <= Len(t) /\ \A i \in 1..Len(s) : s[i] = t[i]

NoHeader == authorization = None \/ authorization[1] = <<>>
IdpReturnedUser == auth # None /\ auth[1].error = Null /\ auth[1].user \in Users
TokenRejected == ~NoHeader /\ auth # None /\ (auth[1].error # Null \/ Falsy(auth[1].user))
StoreGrantsRead ==
    /\ body # None
    /\ body[1].app_id \in Apps
    /\ has_app_right_userid(org_users, body[1].app_id, "read", userId)
RightDenied == allowed # None /\ ~Truthy(allowed[1])
BundleUnresolved ==
    \/ bundle = None
    \/ bundle[1].owner_org = None
    \/ Falsy(bundle[1].owner_org[1].created_by)
\* the row of app_versions the request names
ResolvedRow == CHOOSE r \in app_versions : r.app_id = body[1].app_id /\ r.id = body[1].id
\* the scope argument of the last call, the call of the signer
SignerScope == calls[Len(calls)].arg

\* C1: every stage of the handler is a hard gate, in the order header ->
\* identity provider -> hasAppRight -> bundle lookup -> signer: the identity
\* provider is consulted only with a header present, hasAppRight is evaluated
\* only once the identity provider returned a user, the bundle lookup happens
\* only once hasAppRight returned true, the signer is called only once the
\* bundle and its owner are resolved, and a 200 {url} needs all of them.
C1_HardGates ==
    /\ IsPrefix(CallSeq, Stages)
    /\ "getUser" \in CallNames => ~NoHeader
    /\ "hasAppRight" \in CallNames => IdpReturnedUser
    /\ "app_versions" \in CallNames =>
          allowed = Some(JsBool(TRUE)) /\ StoreGrantsRead
    /\ "getBundleUrl" \in CallNames =>
          ~BundleUnresolved /\ ResolvedRow \in app_versions
    /\ (response # None /\ response[1].code = 200) =>
          /\ CallSeq = Stages
          /\ ~NoHeader /\ IdpReturnedUser /\ StoreGrantsRead /\ ~BundleUnresolved
          /\ response[1].url # Undefined
C1_Witness == response # None /\ response[1].code = 200

\* C2 (as claimed): when the bundle cannot be resolved by (app_id, id), or its
\* owning organization cannot be resolved, the response is
\* 500 {status: "Error unknow"} and the signer is never invoked.
C2_UnresolvedIsErrorUnknow ==
    (pc = "responded" /\ "app_versions" \in CallNames /\ BundleUnresolved) =>
        /\ response = Some([code |-> 500, status |-> "Error unknow",
                            app_id |-> Undefined, url |-> Undefined])
        /\ "getBundleUrl" \notin CallNames

\* C3 (as claimed): no Authorization header -> 400 "Cannot find authorization";
\* token rejected by the identity provider -> 400 "not authorize"; valid user
\* without the read right -> 400 echoing the app_id of the body; no URL in
\* any of these responses.
C3_Rejections ==
    /\ NoHeader => response = Some([code |-> 400, status |-> "Cannot find authorization",
                                    app_id |-> Undefined, url |-> Undefined])
    /\ TokenRejected => response = Some([code |-> 400, status |-> "not authorize",
                                         app_id |-> Undefined, url |-> Undefined])
    /\ RightDenied => /\ response[1].code = 400
                      /\ response[1].app_id = body[1].app_id
                      /\ response[1].url = Undefined
Returned(v) == [throws |-> FALSE, value |-> v]
Thrown(message) == [throws |-> TRUE, value |-> JsStr(message)]

\* the caller has the outcome; the next call can be made
call_end ==
    /\ fn # "none"
    /\ fn' = "none"
    /\ args' = <<>>
    /\ result' = <<>>
    /\ calls' = <<>>
    /\ org_users' = {}
    /\ UNCHANGED <<app_versions, orgs, postVars, writeVars>>

call_hasAppRight ==
    /\ fn = "none"
    /\ \E appId \in Apps \cup {Undefined}, userid \in Users \cup {Undefined},
       right \in Range(Rights), ou \in OrgUsersTables, fail \in BOOLEAN :
         LET r == hasAppRight(ou, appId, userid, right, fail)
         IN  /\ fn' = "hasAppRight"
             /\ args' = [appId |-> appId, userid |-> userid, right |-> right,
                         storeFails |-> fail]
             /\ org_users' = IF appId \in Apps THEN OrgUsersRead(ou, userid, AppOwner[appId])
                                               ELSE {}
             /\ calls' = r.rpc
             /\ result' = Returned(r.ret)
             /\ UNCHANGED <<app_versions, orgs, postVars, writeVars>>

call_hasOrgRight ==
    /\ fn = "none"
    /\ \E orgId \in Orgs \cup {Undefined}, user \in Users \cup {Undefined},
       right \in Range(Rights), ou \in OrgUsersTables, fail \in BOOLEAN :
         LET r == hasOrgRight(ou, orgId, user, right, fail)
         IN  /\ fn' = "hasOrgRight"
             /\ args' = [orgId |-> orgId, userId |-> user, right |-> right,
                         storeFails |-> fail]
             /\ org_users' = OrgUsersRead(ou, user, orgId)
             /\ calls' = r.rpc
             /\ result' = Returned(r.ret)
             /\ UNCHANGED <<app_versions, orgs, postVars, writeVars>>

NextRights == call_hasAppRight \/ call_hasOrgRight \/ call_end

SpecRights == Init /\ [][NextRights]_vars

\* the principal holds at least the required right on the organization
HoldsRight(user, org, right) ==
    \E r \in org_users : /\ r.user_id = user
                         /\ r.org_id = org
                         /\ RightLevel(r.user_right) >= RightLevel(right)

\* C9: the rights resolvers fail closed: hasAppRight and hasOrgRight return
\* false, and throw nothing, when the app id is missing, the principal is
\* missing or the rights lookup fails; they return true only when the lookup
\* succeeded and the store reported that the principal holds at least the
\* required right.
C9_FailClosed ==
    /\ fn = "hasAppRight" =>
         /\ ~result.throws
         /\ result.value \in {JsBool(TRUE), JsBool(FALSE)}
         /\ (Falsy(args.appId) \/ Falsy(args.userid) \/ args.storeFails)
               => result.value = JsBool(FALSE)
         /\ result.value = JsBool(TRUE) =>
               /\ ~args.storeFails
               /\ calls # <<>>
               /\ args.appId \in Apps
               /\ HoldsRight(args.userid, AppOwner[args.appId], args.right)
    /\ fn = "hasOrgRight" =>
         /\ ~result.throws
         /\ result.value \in {JsBool(TRUE), JsBool(FALSE)}
         /\ (Falsy(args.userId) \/ args.storeFails) => result.value = JsBool(FALSE)
         /\ result.value = JsBool(TRUE) =>
               /\ ~args.storeFails
               /\ calls # <<>>
               /\ HoldsRight(args.userId, args.orgId, args.right)
\* a failed lookup denies a principal whom the store would have granted
C9_Witness ==
    /\ fn = "hasOrgRight"
    /\ args.storeFails
    /\ args.orgId \in Orgs
    /\ HoldsRight(args.userId, args.orgId, args.right)
    /\ result.value = JsBool(FALSE)

(***************************************************************************)
(* Quota evaluator (supabase.ts).                                          *)
(***************************************************************************)
Returns(v, rpc) == [throws |-> FALSE, value |-> v, rpc |-> rpc]
Throws(message, rpc) == [throws |-> TRUE, value |-> JsStr(message), rpc |-> rpc]

\* rows of rpc get_total_metrics
PlanTotals == [mau : 0..MaxMetric, bandwidth : 0..MaxMetric, storage : 0..MaxMetric,
               get : 0..MaxMetric, fail : 0..MaxMetric, install : 0..MaxMetric,
               uninstall : 0..MaxMetric]
\* rows of rpc get_plan_usage_percent_detailed
PlanUsages == [total_percent : 0..MaxPercent, mau_percent : 0..MaxPercent,
               bandwidth_percent : 0..MaxPercent, storage_percent : 0..MaxPercent]
\* answers of rpc is_good_plan_v5_org and its siblings
BoolData == {JsBool(TRUE), JsBool(FALSE), JsNull}
\* answers of rpc get_current_plan_name_org
PlanNames == {"Solo", "Maker"}
PlanNameData == {JsStr(n) : n \in PlanNames \cup {""}} \cup {JsNull}

\* getTotalStats that queries the store whatever the org id
getTotalStats_noGuard(orgId, data, fail) ==
    LET ans == RpcAnswer(data, fail)
        rpc == <<Call("get_total_metrics", orgId)>>
    IN  IF ans.error # Null THEN Throws(ans.error, rpc) ELSE Returns(ans.data, rpc)

getTotalStats(orgId, data, fail) ==
    IF Falsy(orgId)
      THEN Returns([mau |-> 0, bandwidth |-> 0, storage |-> 0, get |-> 0, fail |-> 0,
                    install |-> 0, uninstall |-> 0], <<>>)
      ELSE LET ans == RpcAnswer(data, fail)
               rpc == <<Call("get_total_metrics", orgId)>>
           IN  IF ans.error # Null THEN Throws(ans.error, rpc) ELSE Returns(ans.data, rpc)

getPlanUsagePercent(orgId, data, fail) ==
    IF Falsy(orgId)
      THEN Returns([total_percent |-> 0, mau_percent |-> 0, bandwidth_percent |-> 0,
                    storage_percent |-> 0], <<>>)
      ELSE LET ans == RpcAnswer(data, fail)
               rpc == <<Call("get_plan_usage_percent_detailed", orgId)>>
           IN  IF ans.error # Null THEN Throws(ans.error, rpc) ELSE Returns(ans.data, rpc)

\* isGoodPlanOrg without its try/catch
isGoodPlanOrg_noCatch(orgId, data, fail) ==
    LET ans == RpcAnswer(data, fail)
        rpc == <<Call("is_good_plan_v5_org", orgId)>>
    IN  IF ans.error # Null THEN Throws(ans.error, rpc)
        ELSE Returns(IF Truthy(ans.data) THEN ans.data ELSE JsBool(FALSE), rpc)

\* .throwOnError() rejects on a store error; the catch logs and false is returned
isGoodPlanOrg(orgId, data, fail) ==
    LET ans == RpcAnswer(data, fail)
        rpc == <<Call("is_good_plan_v5_org", orgId)>>
    IN  IF ans.error # Null THEN Returns(JsBool(FALSE), rpc)
        ELSE Returns(IF Truthy(ans.data) THEN ans.data ELSE JsBool(FALSE), rpc)

DEFAUL_PLAN_NAME == "Solo"

getCurrentPlanNameOrg(orgId, data, fail) ==
    IF Falsy(orgId)
      THEN Returns(JsStr(DEFAUL_PLAN_NAME), <<>>)
      ELSE LET ans == RpcAnswer(data, fail)
               rpc == <<Call("get_current_plan_name_org", orgId)>>
           IN  IF ans.error # Null THEN Throws(ans.error, rpc)
               ELSE Returns(IF Truthy(ans.data) THEN ans.data
                                                ELSE JsStr(DEFAUL_PLAN_NAME), rpc)

OrgIds == Orgs \cup {Undefined, ""}

\* one call of a quota function: r is what the function did
QuotaCall(name, orgId, fail, r) ==
    /\ fn' = name
    /\ args' = [orgId |-> orgId, storeFails |-> fail]
    /\ calls' = r.rpc
    /\ result' = [throws |-> r.throws, value |-> r.value]
    /\ UNCHANGED <<storeVars, postVars, writeVars>>

call_getTotalStats ==
    /\ fn = "none"
    /\ \E orgId \in OrgIds, data \in PlanTotals, fail \in BOOLEAN :
         QuotaCall("getTotalStats", orgId, fail, getTotalStats(orgId, data, fail))

call_getPlanUsagePercent ==
    /\ fn = "none"
    /\ \E orgId \in OrgIds, data \in PlanUsages, fail \in BOOLEAN :
         QuotaCall("getPlanUsagePercent", orgId, fail,
                   getPlanUsagePercent(orgId, data, fail))

call_isGoodPlanOrg ==
    /\ fn = "none"
    /\ \E orgId \in OrgIds, data \in BoolData, fail \in BOOLEAN :
         QuotaCall("isGoodPlanOrg", orgId, fail, isGoodPlanOrg(orgId, data, fail))

call_getCurrentPlanNameOrg ==
    /\ fn = "none"
    /\ \E orgId \in OrgIds, data \in PlanNameData, fail \in BOOLEAN :
         QuotaCall("getCurrentPlanNameOrg", orgId, fail,
                   getCurrentPlanNameOrg(orgId, data, fail))

NextQuota ==
    \/ call_getTotalStats
    \/ call_getPlanUsagePercent
    \/ call_isGoodPlanOrg
    \/ call_getCurrentPlanNameOrg
    \/ call_end

SpecQuota == Init /\ [][NextQuota]_vars

QuotaFns == {"getTotalStats", "getPlanUsagePercent", "isGoodPlanOrg",
             "getCurrentPlanNameOrg"}
ThrowingQuotaFns == {"getTotalStats", "getPlanUsagePercent", "getCurrentPlanNameOrg"}
\* the store was called and the call failed
StoreFailed == calls # <<>> /\ args.storeFails
SafeDefault(name) ==
    CASE name = "getTotalStats" ->
           [mau |-> 0, bandwidth |-> 0, storage |-> 0, get |-> 0, fail |-> 0,
            install |-> 0, uninstall |-> 0]
      [] name = "getPlanUsagePercent" ->
           [total_percent |-> 0, mau_percent |-> 0, bandwidth_percent |-> 0,
            storage_percent |-> 0]
      [] name = "isGoodPlanOrg" -> JsBool(FALSE)
      [] name = "getCurrentPlanNameOrg" -> JsStr("Solo")

C10_AbsentOrgIsZero ==
    /\ (fn = "getPlanUsagePercent" /\ Falsy(args.orgId)) =>
         /\ result = [throws |-> FALSE,
                      value |-> [total_percent |-> 0, mau_percent |-> 0,
                                 bandwidth_percent |-> 0, storage_percent |-> 0]]
         /\ calls = <<>>
    /\ (fn = "getTotalStats" /\ Falsy(args.orgId)) =>
         /\ result = [throws |-> FALSE,
                      value |-> [mau |-> 0, bandwidth |-> 0, storage |-> 0, get |-> 0,
                                 fail |-> 0, install |-> 0, uninstall |-> 0]]
         /\ calls = <<>>
C10_Witness ==
    /\ fn = "getTotalStats"
    /\ args.orgId = Undefined
    /\ ~result.throws
    /\ result.value.mau = 0

(***************************************************************************)
(* Segment classifier (supabase.ts).                                       *)
(***************************************************************************)
\* isOnboardedOrg, isCanceledOrg, isPayingOrg: data || false, false on a store error
isOnboardedOrg(data, fail) ==
    LET ans == RpcAnswer(data, fail)
    IN  IF ans.error # Null THEN JsBool(FALSE)
        ELSE IF Truthy(ans.data) THEN ans.data ELSE JsBool(FALSE)
isCanceledOrg(data, fail) ==
    LET ans == RpcAnswer(data, fail)
    IN  IF ans.error # Null THEN JsBool(FALSE)
        ELSE IF Truthy(ans.data) THEN ans.data ELSE JsBool(FALSE)
isPayingOrg(data, fail) ==
    LET ans == RpcAnswer(data, fail)
    IN  IF ans.error # Null THEN JsBool(FALSE)
        ELSE IF Truthy(ans.data) THEN ans.data ELSE JsBool(FALSE)
\* isTrialOrg: data || 0, 0 on a store error
isTrialOrg(data, fail) ==
    LET ans == RpcAnswer(data, fail)
    IN  IF ans.error # Null THEN JsNum(0)
        ELSE IF Truthy(ans.data) THEN ans.data ELSE JsNum(0)

\* answers of rpc is_trial_org
TrialData == {JsNum(n) : n \in 0..MaxTrialDays} \cup {JsNull}

\* rows of plans, as far as the classifier reads them
PriceIds == {"price_m", "price_y"}
Plans == [name : PlanNames, price_m_id : {"price_m"}]
PlanArgs == {None} \cup {Some(pl) : pl \in Plans}

\* the keys of segmentsObj, in the order Object.entries yields them
SegmentKeys == <<"capgo", "onboarded", "trial", "trial7", "trial1", "trial0", "paying",
                 "payingMonthly", "plan", "overuse", "canceled", "issueSegment">>

Set2(obj, k1, k2) == [obj EXCEPT ![k1] = JsBool(TRUE), ![k2] = JsBool(TRUE)]

\* the rule chain with the 7-day tier reaching down to day 1
segmentsObjAfterRules_trial7From1(obj, paying, trialDaysLeft, canUseMore, plan) ==
    IF ~paying /\ trialDaysLeft >= 1 /\ trialDaysLeft <= 7 THEN Set2(obj, "trial", "trial7")
    ELSE IF ~paying /\ trialDaysLeft = 1 THEN Set2(obj, "trial", "trial1")
    ELSE IF ~paying /\ ~canUseMore THEN Set2(obj, "trial", "trial0")
    ELSE IF paying /\ ~canUseMore /\ plan # None THEN Set2(obj, "overuse", "paying")
    ELSE IF paying /\ canUseMore /\ plan # None THEN [obj EXCEPT !["paying"] = JsBool(TRUE)]
    ELSE [obj EXCEPT !["issueSegment"] = JsBool(TRUE)]

\* the rule chain whose overuse rule forgets the paying tag
segmentsObjAfterRules_overuseOnly(obj, paying, trialDaysLeft, canUseMore, plan) ==
    IF ~paying /\ trialDaysLeft > 1 /\ trialDaysLeft <= 7 THEN Set2(obj, "trial", "trial7")
    ELSE IF ~paying /\ trialDaysLeft = 1 THEN Set2(obj, "trial", "trial1")
    ELSE IF ~paying /\ ~canUseMore THEN Set2(obj, "trial", "trial0")
    ELSE IF paying /\ ~canUseMore /\ plan # None
      THEN [obj EXCEPT !["overuse"] = JsBool(TRUE)]
    ELSE IF paying /\ canUseMore /\ plan # None THEN [obj EXCEPT !["paying"] = JsBool(TRUE)]
    ELSE [obj EXCEPT !["issueSegment"] = JsBool(TRUE)]

\* the if / else-if chain of customerToSegmentOrg, for an onboarded org
segmentsObjAfterRules(obj, paying, trialDaysLeft, canUseMore, plan) ==
    IF ~paying /\ trialDaysLeft > 1 /\ trialDaysLeft <= 7 THEN Set2(obj, "trial", "trial7")
    ELSE IF ~paying /\ trialDaysLeft = 1 THEN Set2(obj, "trial", "trial1")
    ELSE IF ~paying /\ ~canUseMore THEN Set2(obj, "trial", "trial0")
    ELSE IF paying /\ ~canUseMore /\ plan # None THEN Set2(obj, "overuse", "paying")
    ELSE IF paying /\ canUseMore /\ plan # None THEN [obj EXCEPT !["paying"] = JsBool(TRUE)]
    ELSE [obj EXCEPT !["issueSegment"] = JsBool(TRUE)]

\* processSegments that drops the false fields
RECURSIVE processSegments_dropsFalse(_, _)
processSegments_dropsFalse(obj, keys) ==
    IF keys = <<>> THEN [segments |-> <<>>, deleteSegments |-> <<>>]
    ELSE LET key == keys[Len(keys)]
             value == obj[key]
             acc == processSegments_dropsFalse(obj, SubSeq(keys, 1, Len(keys) - 1))
         IN  IF TypeOf(value) = "boolean" /\ value.v
               THEN [acc EXCEPT !.segments = Append(@, key)]
             ELSE IF TypeOf(value) = "string" /\ value.v # ""
               THEN [acc EXCEPT !.segments = Append(@, key \o ":" \o value.v)]
             ELSE acc

\* processSegments: the forEach over the entries keys of segmentsObj
RECURSIVE processSegments(_, _)
processSegments(obj, keys) ==
    IF keys = <<>> THEN [segments |-> <<>>, deleteSegments |-> <<>>]
    ELSE LET key == keys[Len(keys)]
             value == obj[key]
             acc == processSegments(obj, SubSeq(keys, 1, Len(keys) - 1))
         IN  IF TypeOf(value) = "boolean"
               THEN IF value.v THEN [acc EXCEPT !.segments = Append(@, key)]
                               ELSE [acc EXCEPT !.deleteSegments = Append(@, key)]
             ELSE IF TypeOf(value) = "string" /\ value.v # ""
               THEN [acc EXCEPT !.segments = Append(@, key \o ":" \o value.v)]
             ELSE acc

\* customerToSegmentOrg(c, orgId, price_id, plan); st holds what the five
\* store calls answer: st.onboarded, st.canceled, st.trial, st.paying, st.good
customerToSegmentOrg(price_id, plan, st) ==
    LET segmentsObj ==
          [capgo |-> JsBool(TRUE),
           onboarded |-> isOnboardedOrg(st.onboarded.data, st.onboarded.fail),
           trial |-> JsBool(FALSE),
           trial7 |-> JsBool(FALSE),
           trial1 |-> JsBool(FALSE),
           trial0 |-> JsBool(FALSE),
           paying |-> JsBool(FALSE),
           payingMonthly |-> JsBool(plan # None /\ plan[1].price_m_id = price_id),
           plan |-> JsStr(IF plan # None THEN plan[1].name ELSE ""),
           overuse |-> JsBool(FALSE),
           canceled |-> isCanceledOrg(st.canceled.data, st.canceled.fail),
           issueSegment |-> JsBool(FALSE)]
        trialDaysLeft == isTrialOrg(st.trial.data, st.trial.fail).v
        paying == Truthy(isPayingOrg(st.paying.data, st.paying.fail))
        canUseMore == Truthy(isGoodPlanOrg("org", st.good.data, st.good.fail).value)
    IN  IF ~Truthy(segmentsObj.onboarded)
          THEN processSegments(segmentsObj, SegmentKeys)
          ELSE processSegments(
                 segmentsObjAfterRules(segmentsObj, paying, trialDaysLeft, canUseMore, plan),
                 SegmentKeys)

\* what one store call of the classifier answers
StoreBool == [data : BoolData, fail : BOOLEAN]
StoreTrial == [data : TrialData, fail : BOOLEAN]

call_customerToSegmentOrg ==
    /\ fn = "none"
    /\ \E price_id \in PriceIds, plan \in PlanArgs,
          onboarded \in StoreBool, canceled \in StoreBool, trial \in StoreTrial,
          paying \in StoreBool, good \in StoreBool :
         LET st == [onboarded |-> onboarded, canceled |-> canceled, trial |-> trial,
                    paying |-> paying, good |-> good]
         IN  /\ fn' = "customerToSegmentOrg"
             /\ args' = [price_id |-> price_id, plan |-> plan, store |-> st]
             /\ result' = Returned(customerToSegmentOrg(price_id, plan, st))
             /\ calls' = <<Call("is_onboarded_org", "org"), Call("is_canceled_org", "org"),
                           Call("is_trial_org", "org"), Call("is_paying_org", "org"),
                           Call("is_good_plan_v5_org", "org")>>
    /\ UNCHANGED <<storeVars, postVars, writeVars>>

NextSegments == call_customerToSegmentOrg \/ call_end

SpecSegments == Init /\ [][NextSegments]_vars

(***************************************************************************)
(* Properties of the segment classifier.                                   *)
(***************************************************************************)
BoolFields == {"capgo", "onboarded", "trial", "trial7", "trial1", "trial0", "paying",
               "payingMonthly", "overuse", "canceled", "issueSegment"}
LifecycleTags == {"trial", "trial7", "trial1", "trial0", "overuse", "paying",
                  "issueSegment"}
Segs == Range(result.value.segments)
Dels == Range(result.value.deleteSegments)

\* what the store told the classifier
Answered(a) == ~a.fail /\ a.data = JsBool(TRUE)
In_onboarded == Answered(args.store.onboarded)
In_canceled == Answered(args.store.canceled)
In_paying == Answered(args.store.paying)
In_canUseMore == Answered(args.store.good)
In_trialDaysLeft ==
    IF ~args.store.trial.fail /\ args.store.trial.data.t = "number"
      THEN args.store.trial.data.v ELSE 0
In_planPresent == args.plan # None

\* the lifecycle tags of the first matching rule
ExpectedLifecycle ==
    CASE ~In_onboarded -> {}
      [] In_onboarded /\ ~In_paying /\ 1 < In_trialDaysLeft /\ In_trialDaysLeft <= 7 ->
           {"trial", "trial7"}
      [] In_onboarded /\ ~In_paying /\ In_trialDaysLeft = 1 -> {"trial", "trial1"}
      [] In_onboarded /\ ~In_paying /\ In_trialDaysLeft \notin 1..7 /\ ~In_canUseMore ->
           {"trial", "trial0"}
      [] In_onboarded /\ In_paying /\ ~In_canUseMore /\ In_planPresent ->
           {"overuse", "paying"}
      [] In_onboarded /\ In_paying /\ In_canUseMore /\ In_planPresent -> {"paying"}
      [] OTHER -> {"issueSegment"}

\* the boolean fields that are true
ExpectedTrue ==
    {"capgo"} \cup ExpectedLifecycle
    \cup (IF In_onboarded THEN {"onboarded"} ELSE {})
    \cup (IF In_canceled THEN {"canceled"} ELSE {})
    \cup (IF In_planPresent /\ args.plan[1].price_m_id = args.price_id
            THEN {"payingMonthly"} ELSE {})

\* C5: segments and deleteSegments are disjoint and every boolean field is in
\* exactly one of them: in segments iff it is true, in deleteSegments iff it
\* is false.
C5_Partition ==
    fn = "customerToSegmentOrg" =>
        /\ Segs \cap Dels = {}
        /\ \A f \in BoolFields : (f \in Segs) # (f \in Dels)
        /\ \A f \in BoolFields : f \in Segs <=> f \in ExpectedTrue
        /\ Dels \subseteq BoolFields
        /\ Len(result.value.segments) = Cardinality(Segs)
        /\ Len(result.value.deleteSegments) = Cardinality(Dels)
C5_Witness ==
    /\ fn = "customerToSegmentOrg"
    /\ {"capgo", "onboarded", "paying"} \subseteq Segs
    /\ {"trial", "canceled", "payingMonthly"} \subseteq Dels

\* C6: the lifecycle tags among {trial, trial7, trial1, trial0, overuse, paying,
\* issueSegment} are exactly those of the first matching rule of the list
\* (1) not onboarded (2) trial 2..7 days (3) trial 1 day (4) not paying and no
\* room left (5) paying, no room left, plan (6) paying, room left, plan
\* (7) otherwise issueSegment; at most one of trial7, trial1, trial0 is present.
C6_FirstMatch ==
    fn = "customerToSegmentOrg" =>
        /\ Segs \cap LifecycleTags = ExpectedLifecycle
        /\ Cardinality(Segs \cap {"trial7", "trial1", "trial0"}) <= 1
C6_Witness ==
    /\ fn = "customerToSegmentOrg"
    /\ In_trialDaysLeft = 1
    /\ ~In_canUseMore
    /\ "trial1" \in Segs

C7_Consequence ==
    /\ {"overuse", "paying"} \subseteq Segs
    /\ {"trial", "trial7", "trial1", "trial0", "issueSegment"} \subseteq Dels
\* C7 (as claimed): onboarded, paying and no room left give segments with
\* overuse and paying, and deleteSegments with trial, trial7, trial1, trial0
\* and issueSegment.
C7_Original ==
    (fn = "customerToSegmentOrg" /\ In_onboarded /\ In_paying /\ ~In_canUseMore)
        => C7_Consequence
\* C7 (amended): the same, for an organization that has a plan.
C7_Amended ==
    (fn = "customerToSegmentOrg" /\ In_onboarded /\ In_paying /\ ~In_canUseMore
       /\ In_planPresent)
        => C7_Consequence
C7_Witness ==
    /\ fn = "customerToSegmentOrg"
    /\ In_onboarded /\ In_paying /\ ~In_canUseMore /\ In_planPresent
    /\ "overuse" \in Segs

(***************************************************************************)
(* Usage recorder (supabase.ts): device heartbeats.                        *)
(***************************************************************************)
DeviceIds == {"d1", "d2"}
VersionIds == 1..MaxBundleId

\* the request that call number id, a call of function name, sends to the
\* store; after is the set of calls that had been answered when it was sent
Request(id, name, q) ==
    [id |-> id, fn |-> name, after |-> {applied[i].id : i \in 1..Len(applied)},
     table |-> q.table, op |-> q.op, ignoreDuplicates |-> q.ignoreDuplicates,
     rows |-> q.rows]

\* trackDevicesSB with { ignoreDuplicates: true }
trackDevicesSB_ignoreDuplicates(app_id, device_id, version, platform, plugin_version, os_version, version_build, custom_id, is_prod, is_emulator, now) ==
    [table |-> "devices", op |-> "upsert", ignoreDuplicates |-> TRUE,
     rows |-> <<[app_id |-> app_id, updated_at |-> now, device_id |-> device_id,
                 platform |-> platform, plugin_version |-> plugin_version,
                 os_version |-> os_version, version_build |-> version_build,
                 custom_id |-> custom_id, version |-> version, is_prod |-> is_prod,
                 is_emulator |-> is_emulator]>>]

\* trackDevicesSB: the query it builds; now is new Date()
trackDevicesSB(app_id, device_id, version, platform, plugin_version, os_version, version_build, custom_id, is_prod, is_emulator, now) ==
    [table |-> "devices", op |-> "upsert", ignoreDuplicates |-> FALSE,
     rows |-> <<[app_id |-> app_id, updated_at |-> now, device_id |-> device_id,
                 platform |-> platform, plugin_version |-> plugin_version,
                 os_version |-> os_version, version_build |-> version_build,
                 custom_id |-> custom_id, version |-> version, is_prod |-> is_prod,
                 is_emulator |-> is_emulator]>>]

\* the store's upsert into devices, whose key is (device_id, app_id)
SameDevice(r1, r2) == r1.device_id = r2.device_id /\ r1.app_id = r2.app_id
UpsertDevice(table, row, ignoreDuplicates) ==
    IF \E r \in table : SameDevice(r, row)
      THEN IF ignoreDuplicates THEN table
           ELSE {r \in table : ~SameDevice(r, row)} \cup {row}
      ELSE table \cup {row}

\* the store's insert: every new row gets the next id of its table
RECURSIVE InsertRows(_, _)
InsertRows(table, rows) ==
    IF rows = <<>> THEN table
    ELSE InsertRows(table \cup {[id |-> Cardinality(table) + 1, row |-> Head(rows)]},
                    Tail(rows))

\* a table after the store has carried out a request on it
Written(name, table, req) ==
    IF req.table # name THEN table
    ELSE IF req.op = "upsert"
      THEN UpsertDevice(table, req.rows[1], req.ignoreDuplicates)
      ELSE InsertRows(table, req.rows)

\* the store answers one of the requests in flight: it carries the request
\* out in one step, or fails and writes nothing
store_apply ==
    \E req \in inflight, fail \in BOOLEAN :
      /\ inflight' = inflight \ {req}
      /\ applied' = Append(applied, [id |-> req.id, fn |-> req.fn, after |-> req.after,
                                     ok |-> ~fail, table |-> req.table,
                                     rows |-> req.rows])
      /\ devices' = IF fail THEN devices ELSE Written("devices", devices, req)
      /\ bandwidth_usage' = IF fail THEN bandwidth_usage
                            ELSE Written("bandwidth_usage", bandwidth_usage, req)
      /\ version_usage' = IF fail THEN version_usage
                          ELSE Written("version_usage", version_usage, req)
      /\ stats' = IF fail THEN stats ELSE Written("stats", stats, req)
      /\ apikeys' = IF fail THEN apikeys ELSE Written("apikeys", apikeys, req)
      /\ UNCHANGED <<storeVars, postVars, calls, utilVars, issued, procs>>

\* a device sends a heartbeat
call_trackDevicesSB ==
    /\ issued < MaxCalls
    /\ \E app_id \in Apps, device_id \in DeviceIds, version \in VersionIds :
         /\ issued' = issued + 1
         /\ inflight' = inflight \cup
              {Request(issued', "trackDevicesSB",
                       trackDevicesSB(app_id, device_id, version, "ios", "6.0.0", "17.0",
                                      "1.0.0", "", TRUE, FALSE, issued'))}
    /\ UNCHANGED <<storeVars, postVars, calls, utilVars, tableVars, applied, procs>>

NextDevices == call_trackDevicesSB \/ store_apply

SpecDevices == Init /\ [][NextDevices]_vars

(***************************************************************************)
(* Properties of the device heartbeat.                                     *)
(***************************************************************************)
\* the writes to devices that the store carried out for the device of row r
AppliedFor(r) ==
    {i \in 1..Len(applied) : /\ applied[i].table = "devices"
                             /\ applied[i].ok
                             /\ SameDevice(applied[i].rows[1], r)}
LastApplied(r) == CHOOSE i \in AppliedFor(r) : \A j \in AppliedFor(r) : j <= i
DeviceKeys == [device_id : DeviceIds, app_id : Apps]

\* C11: devices holds at most one row per (device_id, app_id), and that row
\* carries the values of the write the store applied last for the pair; of
\* two calls for the same pair, the second made after the first was answered,
\* the row holds the version of the second.
C11_UpsertLastWriteWins ==
    /\ \A r1, r2 \in devices : SameDevice(r1, r2) => r1 = r2
    /\ \A k \in DeviceKeys :
         IF AppliedFor(k) = {}
           THEN ~\E r \in devices : SameDevice(r, k)
           ELSE applied[LastApplied(k)].rows[1] \in devices
    /\ \A i, j \in 1..Len(applied) :
         (/\ applied[i].table = "devices" /\ applied[j].table = "devices"
          /\ applied[i].ok /\ applied[j].ok
          /\ SameDevice(applied[i].rows[1], applied[j].rows[1])
          /\ applied[i].id \in applied[j].after
          /\ AppliedFor(applied[j].rows[1]) = {i, j})
         => \E r \in devices : /\ SameDevice(r, applied[j].rows[1])
                               /\ r.version = applied[j].rows[1].version
                               /\ Cardinality({x \in devices : SameDevice(x, r)}) = 1
C11_Witness ==
    \E i, j \in 1..Len(applied) :
      /\ applied[i].ok /\ applied[j].ok
      /\ SameDevice(applied[i].rows[1], applied[j].rows[1])
      /\ applied[i].id \in applied[j].after
      /\ applied[i].rows[1].version # applied[j].rows[1].version
      /\ Cardinality(devices) = 1
      /\ \E r \in devices : r.version = applied[j].rows[1].version

(***************************************************************************)
(* Usage recorder (supabase.ts): bandwidth, version and stats events.      *)
(***************************************************************************)
FileSizes == {1, 2}

trackBandwidthUsageSB(deviceId, appId, fileSize) ==
    [table |-> "bandwidth_usage", op |-> "insert", ignoreDuplicates |-> FALSE,
     rows |-> <<[device_id |-> deviceId, app_id |-> appId, file_size |-> fileSize]>>]

\* trackVersionUsageSB writing to the table of trackBandwidthUsageSB
trackVersionUsageSB_intoBandwidthUsage(versionId, appId, action) ==
    [table |-> "bandwidth_usage", op |-> "insert", ignoreDuplicates |-> FALSE,
     rows |-> <<[version_id |-> versionId, app_id |-> appId, action |-> action]>>]

trackVersionUsageSB(versionId, appId, action) ==
    [table |-> "version_usage", op |-> "insert", ignoreDuplicates |-> FALSE,
     rows |-> <<[version_id |-> versionId, app_id |-> appId, action |-> action]>>]

\* trackLogsSB: now is new Date()
trackLogsSB(app_id, device_id, action, version_id, now) ==
    [table |-> "stats", op |-> "insert", ignoreDuplicates |-> FALSE,
     rows |-> <<[app_id |-> app_id, created_at |-> now, device_id |-> device_id,
                 action |-> action, version |-> version_id]>>]

\* one call of a recorder: the query q is sent to the store
RecorderCall(name, q) ==
    /\ inflight' = inflight \cup {Request(issued', name, q)}
    /\ UNCHANGED <<storeVars, postVars, calls, utilVars, tableVars, applied, procs>>

call_trackBandwidthUsageSB ==
    /\ issued < MaxCalls
    /\ issued' = issued + 1
    /\ \E appId \in Apps, fileSize \in FileSizes :
         RecorderCall("trackBandwidthUsageSB", trackBandwidthUsageSB("d1", appId, fileSize))

call_trackVersionUsageSB ==
    /\ issued < MaxCalls
    /\ issued' = issued + 1
    /\ \E versionId \in VersionIds, appId \in Apps :
         RecorderCall("trackVersionUsageSB", trackVersionUsageSB(versionId, appId, "get"))

call_trackLogsSB ==
    /\ issued < MaxCalls
    /\ issued' = issued + 1
    /\ \E app_id \in Apps, device_id \in DeviceIds :
         RecorderCall("trackLogsSB", trackLogsSB(app_id, device_id, "get", 1, issued'))

NextUsage ==
    \/ call_trackBandwidthUsageSB
    \/ call_trackVersionUsageSB
    \/ call_trackLogsSB
    \/ store_apply

SpecUsage == Init /\ [][NextUsage]_vars

(***************************************************************************)
(* Properties of the usage events.                                         *)
(***************************************************************************)
\* the calls of function name that the store carried out
Succeeded(name) == {i \in 1..Len(applied) : applied[i].fn = name /\ applied[i].ok}
\* table holds one row, with an id of its own, for every call of name that
\* the store carried out
OneRowPerCall(table, name) ==
    /\ Cardinality(table) = Cardinality(Succeeded(name))
    /\ \A r1, r2 \in table : r1.id = r2.id => r1 = r2
    /\ \A i \in Succeeded(name) :
         Cardinality({r \in table : r.row = applied[i].rows[1]})
           = Cardinality({j \in Succeeded(name) : applied[j].rows = applied[i].rows})
\* a step adds at most one row to table and leaves the rows it holds alone
OnlyAdds(old, new) == old \subseteq new /\ Cardinality(new) <= Cardinality(old) + 1

\* C12: trackBandwidthUsageSB, trackVersionUsageSB and trackLogsSB are pure
\* inserts: every call the store carries out adds exactly one new row to its
\* table, so N calls leave N distinct rows, and no step updates or deletes a
\* usage row that is stored.
C12_PureInserts ==
    /\ [](/\ OneRowPerCall(bandwidth_usage, "trackBandwidthUsageSB")
          /\ OneRowPerCall(version_usage, "trackVersionUsageSB")
          /\ OneRowPerCall(stats, "trackLogsSB"))
    /\ [][/\ OnlyAdds(bandwidth_usage, bandwidth_usage')
          /\ OnlyAdds(version_usage, version_usage')
          /\ OnlyAdds(stats, stats')]_vars
C12_Witness ==
    /\ Cardinality(stats) = 2
    /\ \A r1, r2 \in stats : r1.row.app_id = r2.row.app_id
    /\ Cardinality(Succeeded("trackLogsSB")) = 2


(***************************************************************************)
(* createApiKey (supabase.ts): the default keys of a user.                 *)
(***************************************************************************)
\* the answer to select('id', { count: 'exact', head: true }).eq('user_id',
\* user_id) on a table of api keys
CountAnswer(table, user_id, fail) ==
    IF fail THEN [count |-> JsNull, error |-> StoreError]
    ELSE [count |-> JsNum(Cardinality({r \in table : r.row.user_id = user_id})),
          error |-> Null]
\* res.count || 0
Total(res) == IF Truthy(res.count) THEN res.count.v ELSE 0

\* crypto.randomUUID(): the n-th key drawn by call number id
randomUUID(id, n) == <<id, n>>

\* createApiKey after the count was read: the insert it sends, if any
createApiKey(user_id, total, id) ==
    IF total = 0
      THEN Some([table |-> "apikeys", op |-> "insert", ignoreDuplicates |-> FALSE,
                 rows |-> <<[user_id |-> user_id, key |-> randomUUID(id, 1),
                             mode |-> "all", name |-> "all"],
                            [user_id |-> user_id, key |-> randomUUID(id, 2),
                             mode |-> "upload", name |-> "upload"],
                            [user_id |-> user_id, key |-> randomUUID(id, 3),
                             mode |-> "read", name |-> "read"]>>])
      ELSE None

\* createApiKey is called: the count of the user's keys is asked of the store
call_createApiKey ==
    /\ issued < MaxCalls
    /\ \E user_id \in Users :
         /\ issued' = issued + 1
         /\ procs' = Append(procs, [id |-> issued', userId |-> user_id, pc |-> "count",
                                    total |-> 0, countError |-> FALSE])
    /\ UNCHANGED <<storeVars, postVars, calls, utilVars, tableVars, inflight, applied>>

\* the store answers the count of one call, which goes on to its return
createApiKey_count ==
    \E p \in 1..Len(procs), fail \in BOOLEAN :
      /\ procs[p].pc = "count"
      /\ LET res == CountAnswer(apikeys, procs[p].userId, fail)
             total == Total(res)
             q == createApiKey(procs[p].userId, total, procs[p].id)
         IN /\ procs' = [procs EXCEPT ![p].pc = "returned", ![p].total = total,
                                      ![p].countError = fail]
            /\ inflight' = IF q = None THEN inflight
                           ELSE inflight \cup {Request(procs[p].id, "createApiKey", q[1])}
      /\ UNCHANGED <<storeVars, postVars, calls, utilVars, tableVars, applied, issued>>

NextApiKeys ==
    \/ call_createApiKey
    \/ createApiKey_count
    \/ store_apply

SpecApiKeys == Init /\ [][NextApiKeys]_vars

(***************************************************************************)
(* Properties of createApiKey.                                             *)
(***************************************************************************)
KeysOf(u) == {r \in apikeys : r.row.user_id = u}
CallsOf(u) == {p \in 1..Len(procs) : procs[p].userId = u}
\* every call for user u has returned and its insert, if any, was answered
Settled(u) ==
    /\ \A p \in CallsOf(u) : procs[p].pc = "returned"
    /\ ~\E req \in inflight : req.fn = "createApiKey" /\ req.rows[1].user_id = u
\* no count and no insert of a call for user u was failed by the store
NoStoreFailure(u) ==
    /\ \A p \in CallsOf(u) : ~procs[p].countError
    /\ \A i \in 1..Len(applied) :
         (applied[i].fn = "createApiKey" /\ applied[i].rows[1].user_id = u)
           => applied[i].ok

\* C13: createApiKey provisions the default keys at most once per user: a
\* user who started without keys never holds more than three keys, once the
\* calls for the user are over the user holds exactly the keys all, upload
\* and read, and a call that started when the user held a key sends no
\* insert. Stated for the runs in which the store fails no request.
C13_ProvisionedOnce ==
    \A u \in Users :
      NoStoreFailure(u) =>
        /\ Cardinality(KeysOf(u)) <= 3
        /\ (Settled(u) /\ CallsOf(u) # {}) =>
             /\ Cardinality(KeysOf(u)) = 3
             /\ {r.row.mode : r \in KeysOf(u)} = {"all", "upload", "read"}

=============================================================================
